---- MODULE Spec2Model ----
(***************************************************************************)
(* Model of the Inworld TTS integration for Home Assistant:                *)
(*   - the credentials flow   (config_flow.py, InworldTTSConfigFlow)       *)
(*   - the options flow       (config_flow.py, InworldTTSOptionsFlow)      *)
(*   - the catalog fetch and the validation probe (config_flow.py)         *)
(*   - the streaming synthesis client (tts.py, InworldTTSEntity)           *)
(*                                                                         *)
(* Python dicts with optional keys are records that carry the set of keys  *)
(* that are present ("keys"); a field whose key is absent holds a fixed    *)
(* filler ("" or 0) that is never read.  None is the value NoneV.          *)
(* temperature is counted in tenths (8 stands for 0.8).                    *)
(***************************************************************************)
EXTENDS Integers, Sequences, FiniteSets, TLC

VARIABLES
    entry,          \* the config entry: exists, data (credentials), options
    of_alive,       \* of_alive[s]: options session s has been constructed and has not completed
    of_catalog,     \* of_catalog[s]: InworldTTSOptionsFlow._voices_by_language
    of_language,    \* of_language[s]: InworldTTSOptionsFlow._selected_language
    last,           \* the most recent flow step: its input, its network calls, its result
    call            \* the synthesis call in progress (tts.py)

vars == <<entry, of_alive, of_catalog, of_language, last, call>>

flow_vars == <<entry, of_alive, of_catalog, of_language, last>>

NoneV == "<None>"

\* the most lines a response body has
MaxLines == 3

-----------------------------------------------------------------------------
(* const.py *)

TITLE == "Inworld TTS"

DEFAULT_API_BASE_URL == "https://api.inworld.ai/"

DEFAULT_API_TIMEOUT == 30

DEFAULT_AUDIO_ENCODING == "mp3"

DEFAULT_MODEL_ID == "inworld-tts-1"

DEFAULT_SAMPLE_RATE_HERTZ == 48000

DEFAULT_TEMPERATURE == 8

SupportedAudioEncodings == {"LINEAR16", "MP3", "OGG_OPUS", "ALAW", "MULAW"}

SUPPORTED_MODEL_IDS == {"inworld-tts-1", "inworld-tts-1-max"}
\* the content_type of a member of SupportedAudioEncodings
ContentTypeOf(member) ==
    CASE member = "LINEAR16" -> "audio/wav"
      [] member = "MP3" -> "audio/mpeg"
      [] member = "OGG_OPUS" -> "audio/opus"
      [] member = "ALAW" -> "audio/wav"
      [] member = "MULAW" -> "audio/wav"


-----------------------------------------------------------------------------
(* Python built-ins the code relies on *)

\* str.upper() on the strings that occur as audio encodings
Upper(s) ==
    CASE s = "mp3" -> "MP3"
      [] s = "linear16" -> "LINEAR16"
      [] s = "ogg_opus" -> "OGG_OPUS"
      [] s = "alaw" -> "ALAW"
      [] s = "mulaw" -> "MULAW"
      [] OTHER -> s

\* str.rstrip("/") on the base URLs that occur
RStripSlash(u) ==
    CASE u = "https://api.inworld.ai/" -> "https://api.inworld.ai"
      [] u = "http://proxy.local/inworld/" -> "http://proxy.local/inworld"
      [] OTHER -> u

\* the order sorted() puts the language codes in
LangOrder == <<"de", "en", "fr">>

LangRank(l) == CHOOSE i \in 1..Len(LangOrder) : LangOrder[i] = l

\* sorted(S) for a set of language codes
Sorted(S) == SelectSeq(LangOrder, LAMBDA l : l \in S)

\* the last of the sorted codes
SortedFirst_Last(S) == CHOOSE l \in S : \A m \in S : LangRank(l) >= LangRank(m)

\* sorted(S)[0] for a non-empty set of language codes
SortedFirst(S) == CHOOSE l \in S : \A m \in S : LangRank(l) <= LangRank(m)

\* d.get(k, default) / k in d, on a dict carried as a record with its key set
Has(d, k) == k \in d.keys

DictGet(d, k, default) == IF Has(d, k) THEN d[k] ELSE default

\* truthiness of an optional string: None and "" are falsy
Truthy(x) == x # NoneV /\ x # ""

PyOr(a, b) == IF Truthy(a) THEN a ELSE b

-----------------------------------------------------------------------------
(* The remote API, as the integration sees it: an HTTP status, a transport *)
(* error raised by aiohttp (aiohttp.ClientError), or the total timeout     *)
(* expiring (asyncio.TimeoutError, which is not an aiohttp.ClientError).   *)

HttpStatuses == {200, 401, 500}

VoiceRec(keys, id, name, langs) ==
    [keys |-> keys, voiceId |-> id, displayName |-> name, languages |-> langs]

\* bodies the voices endpoint can answer with ({"voices": [...]})
VoiceLists ==
    { <<>>,
      << VoiceRec({"voiceId", "displayName", "languages"}, "v1", "Voice One", <<"en">>),
         VoiceRec({"voiceId", "languages"}, "v2", "", <<"en", "fr">>),
         VoiceRec({"voiceId", "displayName", "languages"}, "v3", "", <<"fr">>),
         VoiceRec({"voiceId", "displayName"}, "v4", "Voice Four", <<>>) >>,
      << VoiceRec({"voiceId", "displayName"}, "v1", "Voice One", <<>>),
         VoiceRec({"displayName", "languages"}, "", "Nameless", <<"fr">>) >>,
      << VoiceRec({"voiceId", "displayName", "languages"}, "v1", "Voice One", <<"en", "en">>),
         VoiceRec({"voiceId", "languages"}, "v1", "", <<"en", "fr">>) >> }

Responses ==
    [kind : {"http"}, status : {c \in HttpStatuses : c < 400}, voices : VoiceLists]
    \cup [kind : {"http"}, status : {c \in HttpStatuses : c >= 400}, voices : {<<>>}]
    \cup [kind : {"client_error", "timeout"}, status : {0}, voices : {<<>>}]

-----------------------------------------------------------------------------
(* Credentials and submitted answers *)

Creds(keys, url, key) == [keys |-> keys, api_url |-> url, api_key |-> key]

\* what a user can submit to the credentials step
CredInputs ==
    { Creds({"api_url", "api_key"}, DEFAULT_API_BASE_URL, "K"),
      Creds({"api_url"}, DEFAULT_API_BASE_URL, "") }

NoCreds == Creds({}, "", "")

OptionFields ==
    {"language", "voice_id", "model_id", "audio_encoding", "sample_rate_hertz", "temperature"}

Answers(keys, lang, voice, model, enc, rate, temp) ==
    [keys |-> keys,
     language |-> IF "language" \in keys THEN lang ELSE "",
     voice_id |-> IF "voice_id" \in keys THEN voice ELSE "",
     model_id |-> IF "model_id" \in keys THEN model ELSE "",
     audio_encoding |-> IF "audio_encoding" \in keys THEN enc ELSE "",
     sample_rate_hertz |-> IF "sample_rate_hertz" \in keys THEN rate ELSE 0,
     temperature |-> IF "temperature" \in keys THEN temp ELSE 0]

\* an empty dict of options
NoAnswers == Answers({}, "", "", "", "", 0, 0)

\* the advanced fields as the form submits them, and two other choices of them
FormAdvanced ==
    Answers({"model_id", "audio_encoding", "sample_rate_hertz", "temperature"},
            "", "", DEFAULT_MODEL_ID, "MP3", DEFAULT_SAMPLE_RATE_HERTZ, DEFAULT_TEMPERATURE)

OtherAdvanced ==
    { Answers({}, "", "", "", "", 0, 0),
      Answers({"model_id", "audio_encoding", "sample_rate_hertz", "temperature"},
              "", "", "inworld-tts-1-max", "OGG_OPUS", 24000, 12) }

SubmitLanguages == {"en", "fr", "de"}

SubmitVoices == {"v1", "v3"}

WithSelection(a, lk, l, vk, v) ==
    Answers(a.keys \cup lk \cup vk, l, v, a.model_id, a.audio_encoding,
            a.sample_rate_hertz, a.temperature)

\* what a caller can hand to the options step as user_input: every choice of
\* language and voice (each present or absent) with the form's advanced
\* fields, and the other advanced choices with one language and voice
OptionInputs ==
    { WithSelection(FormAdvanced, lk, l, vk, v) :
        l \in SubmitLanguages, lk \in {{}, {"language"}},
        v \in SubmitVoices, vk \in {{}, {"voice_id"}} }
    \cup { WithSelection(a, {"language"}, "en", {"voice_id"}, "v1") : a \in OtherAdvanced }

\* user_input is None
NoInput == [NoAnswers EXCEPT !.keys = {NoneV}]

-----------------------------------------------------------------------------
(* Voice Catalog Fetcher: get_voices_and_languages *)

EmptyCatalog == [l \in {} |-> <<>>]

VoiceLanguages(voice) == DictGet(voice, "languages", <<>>)

\* the voice put in front of its language's list instead of at its end
CatalogAppend_Front(cat, language, voice) ==
    LET item == [value |-> voice.voiceId,
                 label |-> PyOr(DictGet(voice, "displayName", NoneV), voice.voiceId)]
    IN  [l \in DOMAIN cat \cup {language} |->
            IF l = language
            THEN <<item>> \o (IF l \in DOMAIN cat THEN cat[l] ELSE <<>>)
            ELSE cat[l]]

\* voices_by_language[language].append({"value": ..., "label": ...})
CatalogAppend(cat, language, voice) ==
    LET item == [value |-> voice.voiceId,
                 label |-> PyOr(DictGet(voice, "displayName", NoneV), voice.voiceId)]
    IN  [l \in DOMAIN cat \cup {language} |->
            IF l = language
            THEN (IF l \in DOMAIN cat THEN cat[l] ELSE <<>>) \o <<item>>
            ELSE cat[l]]

RECURSIVE OrganizeLanguages(_, _, _)
\* the inner loop: for language in voice.get("languages", [])
OrganizeLanguages(cat, voice, j) ==
    IF j > Len(VoiceLanguages(voice)) THEN cat
    ELSE OrganizeLanguages(CatalogAppend(cat, VoiceLanguages(voice)[j], voice), voice, j + 1)

RECURSIVE OrganizeVoices(_, _, _)
\* the outer loop: for voice in response_data.get("voices", [])
OrganizeVoices(cat, voices, i) ==
    IF i > Len(voices) THEN cat
    ELSE OrganizeVoices(OrganizeLanguages(cat, voices[i], 1), voices, i + 1)

\* voice["voiceId"] raises KeyError for a voice that lists a language and has no voiceId
VoiceKeyError(voices) ==
    \E i \in 1..Len(voices) :
        Len(VoiceLanguages(voices[i])) > 0 /\ ~Has(voices[i], "voiceId")

\* a fault classifier that has lost the 401 case
HttpFault_No401(resp) ==
    CASE resp.kind = "client_error" -> "CannotConnect"
      [] resp.kind = "timeout" -> "TimeoutError"
      [] resp.status >= 400 -> "CannotConnect"
      [] OTHER -> ""

\* a fault classifier that lets an aiohttp.ClientError through
HttpFault_ClientErrorEscapes(resp) ==
    CASE resp.kind = "client_error" -> "ClientError"
      [] resp.kind = "timeout" -> "TimeoutError"
      [] resp.status >= 400 -> IF resp.status = 401 THEN "InvalidAuth" ELSE "CannotConnect"
      [] OTHER -> ""

\* raise_for_status and the except clauses shared by the fetch and the probe:
\* "" when the response passes, else the exception that leaves the function
HttpFault(resp) ==
    CASE resp.kind = "client_error" -> "CannotConnect"
      [] resp.kind = "timeout" -> "TimeoutError"
      [] resp.status >= 400 -> IF resp.status = 401 THEN "InvalidAuth" ELSE "CannotConnect"
      [] OTHER -> ""

\* get_voices_and_languages(hass, data) against a server answering resp:
\* exc is "" and catalog the index on success, else exc names what is raised
get_voices_and_languages(data, resp) ==
    IF ~Has(data, "api_key") THEN [exc |-> "KeyError", sent |-> FALSE, catalog |-> EmptyCatalog]
    ELSE IF HttpFault(resp) # "" THEN [exc |-> HttpFault(resp), sent |-> TRUE, catalog |-> EmptyCatalog]
    ELSE IF VoiceKeyError(resp.voices) THEN [exc |-> "KeyError", sent |-> TRUE, catalog |-> EmptyCatalog]
    ELSE [exc |-> "", sent |-> TRUE, catalog |-> OrganizeVoices(EmptyCatalog, resp.voices, 1)]

\* the URL the fetch is sent to
VoicesUrl(data) ==
    <<RStripSlash(DictGet(data, "api_url", DEFAULT_API_BASE_URL)), "/tts/v1/voices">>


-----------------------------------------------------------------------------
(* Configuration Validator: validate_voice_input *)

AudioConfig(keys, rate, enc) ==
    [keys |-> keys,
     sampleRateHertz |-> IF "sampleRateHertz" \in keys THEN rate ELSE 0,
     audioEncoding |-> IF "audioEncoding" \in keys THEN enc ELSE ""]

Payload(keys, text, voice, model, temp, audio) ==
    [keys |-> keys, text |-> text, voiceId |-> voice, modelId |-> model,
     temperature |-> IF "temperature" \in keys THEN temp ELSE 0,
     audioConfig |-> IF "audioConfig" \in keys THEN audio ELSE AudioConfig({}, 0, "")]

\* no request was built
NoPayload == Payload({}, "", "", "", 0, AudioConfig({}, 0, ""))

\* the key the probe reads the encoding from: data.get("audioEncoding", DEFAULT_AUDIO_ENCODING)
ProbeEncodingKey == "audioEncoding"

\* SupportedAudioEncodings[data.get(...).upper()]: the member looked up by name
ProbeEncodingMember(data) == Upper(DictGet(data, ProbeEncodingKey, DEFAULT_AUDIO_ENCODING))

\* audio_config as the probe builds it
ProbeAudioConfig(data) ==
    AudioConfig(
        (IF Has(data, "sample_rate_hertz") THEN {"sampleRateHertz"} ELSE {})
            \cup (IF Has(data, "audio_encoding") THEN {"audioEncoding"} ELSE {}),
        data.sample_rate_hertz,
        ProbeEncodingMember(data))

\* payload as the probe builds it (data has voice_id and model_id)
ProbePayload(data) ==
    Payload(
        (IF Has(data, "temperature") THEN {"temperature"} ELSE {})
            \cup (IF ProbeAudioConfig(data).keys # {} THEN {"audioConfig"} ELSE {}),
        "Test", data.voice_id, data.model_id, data.temperature, ProbeAudioConfig(data))

\* a KeyError raised while the probe request is being built
ProbeKeyError(data, api_data) ==
    \/ ~Has(api_data, "api_key")
    \/ ~Has(data, "voice_id")
    \/ ~Has(data, "model_id")
    \/ Has(data, "audio_encoding") /\ ProbeEncodingMember(data) \notin SupportedAudioEncodings

\* validate_voice_input(hass, data, api_data) against a server answering resp:
\* exc is "" on success, else the exception raised; sent tells whether the
\* request was issued, and payload is its JSON body
validate_voice_input(data, api_data, resp) ==
    IF ProbeKeyError(data, api_data)
    THEN [exc |-> "KeyError", sent |-> FALSE, payload |-> NoPayload]
    ELSE [exc |-> HttpFault(resp), sent |-> TRUE, payload |-> ProbePayload(data)]

\* the URL the probe is sent to
ProbeUrl(api_data) ==
    <<RStripSlash(DictGet(api_data, "api_url", DEFAULT_API_BASE_URL)), "/tts/v1/voice">>

\* the except clauses without the last one: another exception is not translated
ErrorCode_NoCatchAll(exc) ==
    CASE exc = "CannotConnect" -> "cannot_connect"
      [] exc = "InvalidAuth" -> "invalid_auth"
      [] OTHER -> exc

\* except CannotConnect / except InvalidAuth / except Exception in both flows
ErrorCode(exc) ==
    CASE exc = "CannotConnect" -> "cannot_connect"
      [] exc = "InvalidAuth" -> "invalid_auth"
      [] OTHER -> "unknown"


-----------------------------------------------------------------------------
(* The options form: InworldTTSOptionsFlow._show_options_form *)

RECURSIVE DictOfOptions(_, _, _)
\* {opt["value"]: opt["label"] for opt in voices}: keys in first-insertion
\* order, a repeated key keeps its place and takes the later label
DictOfOptions(acc, voices, i) ==
    IF i > Len(voices) THEN acc
    ELSE LET opt == voices[i]
             at == {k \in 1..Len(acc) : acc[k].value = opt.value}
         IN  DictOfOptions(
                 IF at = {} THEN Append(acc, opt)
                 ELSE [k \in 1..Len(acc) |-> IF k \in at THEN opt ELSE acc[k]],
                 voices, i + 1)

OptionValues(voice_options) == {voice_options[k].value : k \in 1..Len(voice_options)}

\* the language the form shows as selected, before the default-to-first rule
FormLanguage0(language, options) == PyOr(language, DictGet(options, "language", NoneV))

DefaultsToFirst(catalog, language, options) ==
    ~Truthy(FormLanguage0(language, options)) /\ DOMAIN catalog # {}

\* selected_language in _show_options_form
FormLanguage(catalog, language, options) ==
    IF DefaultsToFirst(catalog, language, options)
    THEN SortedFirst(DOMAIN catalog)
    ELSE FormLanguage0(language, options)

\* self._selected_language after _show_options_form
LanguageAfterForm(catalog, language, options) ==
    IF DefaultsToFirst(catalog, language, options)
    THEN SortedFirst(DOMAIN catalog)
    ELSE language

\* voice_options in _show_options_form, for the language sl the form shows
VoiceOptions(catalog, sl) ==
    IF Truthy(sl) /\ sl \in DOMAIN catalog
    THEN DictOfOptions(<<>>, catalog[sl], 1)
    ELSE <<>>

\* a default that is the first choice whatever is stored
DefaultVoice_AlwaysFirst(voice_options, options) ==
    IF voice_options # <<>> THEN voice_options[1].value
    ELSE DictGet(options, "voice_id", "")

\* default of the voice_id field
DefaultVoice(voice_options, options) ==
    LET current_voice == DictGet(options, "voice_id", "")
    IN  IF voice_options # <<>>
        THEN (IF current_voice \in OptionValues(voice_options)
              THEN current_voice ELSE voice_options[1].value)
        ELSE current_voice

\* the validators of the advanced fields in data_schema_dict: vol.In of the
\* model ids, vol.In of the member names of the encoding enumeration, an int
\* in 8000..48000, a float in 0.0..2.0 (in tenths)
FieldAccepts(field, value) ==
    CASE field = "model_id" -> value \in SUPPORTED_MODEL_IDS
      [] field = "audio_encoding" -> value \in SupportedAudioEncodings
      [] field = "sample_rate_hertz" -> value \in 8000..48000
      [] field = "temperature" -> value \in 0..20

\* the schema handed to async_show_form
ShowOptionsForm(catalog, language, options) ==
    LET sl == FormLanguage(catalog, language, options)
        vo == VoiceOptions(catalog, sl)
    IN  [language_options |-> Sorted(DOMAIN catalog),
         language |-> sl,
         voice_kind |-> IF vo # <<>> THEN "choice" ELSE "text",
         voice_options |-> vo,
         voice_id |-> DefaultVoice(vo, options),
         model_id |-> DictGet(options, "model_id", DEFAULT_MODEL_ID),
         audio_encoding |-> DictGet(options, "audio_encoding", DEFAULT_AUDIO_ENCODING),
         sample_rate_hertz |-> DictGet(options, "sample_rate_hertz", DEFAULT_SAMPLE_RATE_HERTZ),
         temperature |-> DictGet(options, "temperature", DEFAULT_TEMPERATURE)]

\* no options form in the result
NoForm ==
    [language_options |-> <<>>, language |-> NoneV, voice_kind |-> "none",
     voice_options |-> <<>>, voice_id |-> "", model_id |-> "", audio_encoding |-> "",
     sample_rate_hertz |-> 0, temperature |-> 0]

\* results a step returns to the host
FormResult(step_id, errors, form) ==
    [type |-> "form", step_id |-> step_id, errors |-> errors, form |-> form, title |-> ""]

CreateEntryResult(title) ==
    [type |-> "create_entry", step_id |-> "", errors |-> "", form |-> NoForm, title |-> title]

NoResult == [type |-> "none", step_id |-> "", errors |-> "", form |-> NoForm, title |-> ""]


-----------------------------------------------------------------------------
(* The record of the most recent flow step *)

NoFetch == [exc |-> "", sent |-> FALSE, catalog |-> EmptyCatalog]

NoProbe == [exc |-> "", sent |-> FALSE, payload |-> NoPayload]

NoResponse == [kind |-> "none", status |-> 0, voices |-> <<>>]

\* what the server answered to a request that was sent
Answered(call_result, resp) ==
    IF call_result.sent THEN [kind |-> resp.kind, status |-> resp.status, body |-> resp.voices]
    ELSE [kind |-> "none", status |-> 0, body |-> <<>>]

Sessions == {"s1", "s2"}

\* op: "none", "user" (credentials step), "init" (options step) or
\* "cancelled" (options step cancelled at an await); sid: the options
\* session; called: which of the fetch and the probe the step called;
\* fetch and probe: whether the request was sent, what the server answered,
\* and the exception that left the call ("" for none); before and known: the
\* session's selected language and the languages of its catalog when the
\* step began
StepRecord(op, sid, before, known, creds, input, called, fetch, fetch_resp, probe, probe_resp, result) ==
    [op |-> op, sid |-> sid, before |-> before, known |-> known, creds |-> creds,
     input |-> input,
     called |-> called,
     fetch |-> [exc |-> fetch.exc, sent |-> fetch.sent, resp |-> Answered(fetch, fetch_resp)],
     probe |-> [exc |-> probe.exc, sent |-> probe.sent, payload |-> probe.payload,
                resp |-> Answered(probe, probe_resp)],
     result |-> result]

NoStep ==
    StepRecord("none", "", NoneV, {}, NoCreds, NoInput, {}, NoFetch, NoResponse, NoProbe,
               NoResponse, NoResult)

NoEntry == [exists |-> FALSE, data |-> NoCreds, options |-> NoAnswers]

\* the host has taken the result of the previous step: a flow handles one
\* step at a time, and the next input comes after the result was rendered
ResultTaken == last = NoStep

\* the host takes the result of the step that has just returned
TakeResult ==
    /\ last # NoStep
    /\ last' = NoStep
    /\ UNCHANGED <<entry, of_alive, of_catalog, of_language, call>>

-----------------------------------------------------------------------------
(* Credentials flow: InworldTTSConfigFlow.async_step_user *)

\* an entry whose api_url is stored normalised instead of as submitted
CreatedEntry_Normalised(user_input) ==
    [exists |-> TRUE, data |-> [user_input EXCEPT !.api_url = RStripSlash(@)],
     options |-> NoAnswers]

\* the entry async_create_entry(title=TITLE, data=user_input) makes
CreatedEntry(user_input) ==
    [exists |-> TRUE, data |-> user_input, options |-> NoAnswers]

\* async_step_user(user_input) with the voices endpoint answering resp
async_step_user(user_input, resp) ==
    LET fetch == get_voices_and_languages(user_input, resp)
    IN  /\ ~entry.exists
        /\ ResultTaken
        /\ IF fetch.exc = ""
           THEN /\ entry' = CreatedEntry(user_input)
                /\ last' = StepRecord("user", "", NoneV, {}, user_input, NoInput, {"fetch"}, fetch,
                                      resp, NoProbe, NoResponse, CreateEntryResult(TITLE))
           ELSE /\ entry' = entry
                /\ last' = StepRecord("user", "", NoneV, {}, user_input, NoInput, {"fetch"}, fetch,
                                      resp, NoProbe, NoResponse, FormResult("user", ErrorCode(fetch.exc), NoForm))
        /\ UNCHANGED <<of_alive, of_catalog, of_language, call>>

\* async_step_user(None): the empty credentials form
async_step_user_show ==
    /\ ~entry.exists
    /\ ResultTaken
    /\ last' = StepRecord("user", "", NoneV, {}, NoCreds, NoInput, {}, NoFetch, NoResponse,
                          NoProbe, NoResponse, FormResult("user", "", NoForm))
    /\ UNCHANGED <<entry, of_alive, of_catalog, of_language, call>>

-----------------------------------------------------------------------------
(* Options flow: InworldTTSOptionsFlow *)

\* an attribute kept on the class: an assignment through one flow object
\* is seen by all of them
Assigned_OnClass(attr, s, value) == [t \in DOMAIN attr |-> value]

\* self.<attr> = value in the flow object of session s: attr maps every
\* session to its object's attribute
Assigned(attr, s, value) == [attr EXCEPT ![s] = value]

\* async_get_options_flow / __init__
OptionsFlowInit(s) ==
    /\ entry.exists
    /\ ResultTaken
    /\ ~of_alive[s]
    /\ of_alive' = [of_alive EXCEPT ![s] = TRUE]
    /\ of_catalog' = Assigned(of_catalog, s, EmptyCatalog)
    /\ of_language' = Assigned(of_language, s, NoneV)
    /\ UNCHANGED <<entry, last, call>>

Given(user_input) == NoneV \notin user_input.keys

\* any(voice["value"] == user_input.get("voice_id") for voice in voices)
AnyVoice(voices, user_input) ==
    \E k \in 1..Len(voices) : voices[k].value = DictGet(user_input, "voice_id", NoneV)

\* the language of the submission differs from the selected one
LanguageChanged(language, user_input) ==
    Given(user_input) /\ Has(user_input, "language") /\ user_input.language # language

\* a re-show rule that has lost the check of the voice against the new language
ReshowOnly_NoVoiceCheck(catalog, language, user_input) ==
    /\ LanguageChanged(language, user_input)
    /\ ~Has(user_input, "voice_id")

\* the submission only re-shows the form (the early return)
ReshowOnly(catalog, language, user_input) ==
    /\ LanguageChanged(language, user_input)
    /\ \/ ~Has(user_input, "voice_id")
       \/ user_input.language \notin DOMAIN catalog
       \/ ~AnyVoice(catalog[user_input.language], user_input)

\* a step that validates only what it can check against a catalog
Validates_NeedsCatalog(s, user_input) ==
    /\ Given(user_input) /\ ~ReshowOnly(of_catalog[s], of_language[s], user_input)
    /\ DOMAIN of_catalog[s] # {}

\* the step reaches "Validate complete form submission"
Validates(s, user_input) ==
    Given(user_input) /\ ~ReshowOnly(of_catalog[s], of_language[s], user_input)

\* the outcome of the probe the step makes, if it makes one
StepProbe(s, user_input, probe_resp) ==
    IF Validates(s, user_input)
    THEN validate_voice_input(user_input, entry.data, probe_resp)
    ELSE NoProbe

\* a step that persists whenever the probe raised neither of the two known errors
Creates_UnlessKnownError(s, user_input, probe_resp) ==
    /\ Validates(s, user_input)
    /\ StepProbe(s, user_input, probe_resp).exc \notin {"CannotConnect", "InvalidAuth"}

\* the step returns async_create_entry
Creates(s, user_input, probe_resp) ==
    Validates(s, user_input) /\ StepProbe(s, user_input, probe_resp).exc = ""

\* the step reaches "Fetch voices on first load" with no catalog
Fetches(s, user_input, probe_resp) ==
    /\ ~ReshowOnly(of_catalog[s], of_language[s], user_input)
    /\ ~Creates(s, user_input, probe_resp)
    /\ DOMAIN of_catalog[s] = {}

\* an update that also drops the credentials
UpdatedEntry_DataLost(config_entry, user_input) ==
    [config_entry EXCEPT !.options = user_input, !.data = NoCreds]

\* the entry after self.async_create_entry(title="", data=user_input) of the
\* options flow: the host stores the data as the entry's options
UpdatedEntry(config_entry, user_input) == [config_entry EXCEPT !.options = user_input]

\* async_step_init(user_input) of session s, the synthesis endpoint answering
\* probe_resp and the voices endpoint answering fetch_resp
async_step_init(s, user_input, probe_resp, fetch_resp) ==
    LET language1 == IF LanguageChanged(of_language[s], user_input)
                     THEN user_input.language ELSE of_language[s]
        validates == Validates(s, user_input)
        probe == StepProbe(s, user_input, probe_resp)
        errors1 == IF validates /\ probe.exc # "" THEN ErrorCode(probe.exc) ELSE ""
        fetches == Fetches(s, user_input, probe_resp)
        fetch == IF fetches THEN get_voices_and_languages(entry.data, fetch_resp) ELSE NoFetch
        catalog1 == IF fetches /\ fetch.exc = "" THEN fetch.catalog ELSE of_catalog[s]
        errors2 == IF fetches /\ fetch.exc # "" THEN "cannot_connect" ELSE errors1
        called == (IF validates THEN {"probe"} ELSE {}) \cup (IF fetches THEN {"fetch"} ELSE {})
    IN  /\ entry.exists
        /\ ResultTaken
        /\ of_alive[s]
        /\ IF Creates(s, user_input, probe_resp)
           THEN /\ entry' = UpdatedEntry(entry, user_input)
                /\ of_alive' = [of_alive EXCEPT ![s] = FALSE]
                /\ of_catalog' = Assigned(of_catalog, s, EmptyCatalog)
                /\ of_language' = Assigned(of_language, s, NoneV)
                /\ last' = StepRecord("init", s, of_language[s], DOMAIN of_catalog[s], NoCreds, user_input, called, fetch,
                                      fetch_resp,
                                      probe, probe_resp,
                                      CreateEntryResult(""))
           ELSE /\ entry' = entry
                /\ of_alive' = of_alive
                /\ of_catalog' = Assigned(of_catalog, s, catalog1)
                /\ of_language' = Assigned(of_language, s,
                                            LanguageAfterForm(catalog1, language1, entry.options))
                /\ last' = StepRecord("init", s, of_language[s], DOMAIN of_catalog[s], NoCreds, user_input, called, fetch,
                                      fetch_resp,
                                      probe, probe_resp,
                                      FormResult("init", errors2,
                                                 ShowOptionsForm(catalog1, language1, entry.options)))
        /\ call' = call

\* async_step_init(user_input) of session s, cancelled by the host while it
\* awaits the answer to the probe (at = "probe") or, the probe having been
\* answered by probe_resp if one was made, to the fetch (at = "fetch"):
\* CancelledError is no Exception, so no except clause of the step sees it,
\* and what the step assigned before the await stays assigned
async_step_init_cancelled(s, user_input, probe_resp, at) ==
    LET language1 == IF LanguageChanged(of_language[s], user_input)
                     THEN user_input.language ELSE of_language[s]
        probe == IF at = "fetch" THEN StepProbe(s, user_input, probe_resp) ELSE NoProbe
    IN  /\ entry.exists
        /\ ResultTaken
        /\ of_alive[s]
        /\ \/ at = "probe" /\ Validates(s, user_input)
                           /\ ~ProbeKeyError(user_input, entry.data)
           \/ at = "fetch" /\ Fetches(s, user_input, probe_resp)
                           /\ Has(entry.data, "api_key")
        /\ of_language' = Assigned(of_language, s, language1)
        /\ last' = StepRecord("cancelled", s, of_language[s], DOMAIN of_catalog[s], NoCreds,
                              user_input, {at}, NoFetch, NoResponse, probe,
                              IF at = "fetch" THEN probe_resp ELSE NoResponse, NoResult)
        /\ UNCHANGED <<entry, of_alive, of_catalog, call>>

-----------------------------------------------------------------------------
(* The server answers the requests that are sent, and only those *)

\* answers to the fetch of a credentials step
UserFetchResponses(user_input) ==
    IF Has(user_input, "api_key") THEN Responses ELSE {NoResponse}

\* answers to the probe of an options step
InitProbeResponses(s, user_input) ==
    IF Validates(s, user_input) /\ ~ProbeKeyError(user_input, entry.data)
    THEN Responses ELSE {NoResponse}

\* answers to the probe of an options step that is cancelled later, at the fetch
CancelledProbeResponses(s, user_input, at) ==
    IF at = "fetch" THEN InitProbeResponses(s, user_input) ELSE {NoResponse}

\* answers to the fetch of an options step
InitFetchResponses(s, user_input, probe_resp) ==
    IF Fetches(s, user_input, probe_resp) /\ Has(entry.data, "api_key")
    THEN Responses ELSE {NoResponse}

-----------------------------------------------------------------------------
(* base64.b64decode (binascii.a2b_base64, non-strict): text is a sequence   *)
(* of sextets 0..63, with B64Pad standing for "="                           *)

B64Pad == 64

RECURSIVE B64Scan(_, _, _, _, _, _)
\* the decoder's loop: quad_pos, leftchar and pads are its registers, out the
\* bytes produced so far; ok is FALSE where binascii.Error is raised
B64Scan(text, i, quad_pos, leftchar, pads, out) ==
    IF i > Len(text)
    THEN [ok |-> quad_pos = 0, bytes |-> out]
    ELSE LET ch == text[i]
         IN  IF ch = B64Pad
             THEN IF quad_pos >= 2 /\ quad_pos + pads + 1 >= 4
                  THEN [ok |-> TRUE, bytes |-> out]
                  ELSE B64Scan(text, i + 1, quad_pos, leftchar,
                               IF quad_pos >= 2 THEN pads + 1 ELSE pads, out)
             ELSE CASE quad_pos = 0 -> B64Scan(text, i + 1, 1, ch, 0, out)
                    [] quad_pos = 1 ->
                         B64Scan(text, i + 1, 2, ch % 16, 0,
                                 Append(out, (leftchar * 4 + ch \div 16) % 256))
                    [] quad_pos = 2 ->
                         B64Scan(text, i + 1, 3, ch % 4, 0,
                                 Append(out, (leftchar * 16 + ch \div 4) % 256))
                    [] OTHER ->
                         B64Scan(text, i + 1, 0, 0, 0,
                                 Append(out, (leftchar * 64 + ch) % 256))

b64decode(text) == B64Scan(text, 1, 0, 0, 0, <<>>)

-----------------------------------------------------------------------------
(* Lines of the streaming response.  text tells what the bytes of the line  *)
(* are: "blank" (only whitespace), "bytes" (not valid UTF-8), "garbage"     *)
(* (UTF-8 that is not JSON) or "json"; for "json", jtype is the type of the *)
(* parsed value and, for an object, keys and the fields are its content     *)

StreamLine(text, jtype, keys, error_keys, message, result_keys, audioContent) ==
    [text |-> text, jtype |-> jtype, keys |-> keys,
     error |-> [keys |-> error_keys, message |-> message],
     result |-> [keys |-> result_keys, audioContent |-> audioContent]]

BlankLine == StreamLine("blank", "", {}, {}, "", {}, <<>>)

NonUtf8Line == StreamLine("bytes", "", {}, {}, "", {}, <<>>)

GarbageLine == StreamLine("garbage", "", {}, {}, "", {}, <<>>)

\* a JSON number: 5
NumberLine == StreamLine("json", "number", {}, {}, "", {}, <<>>)

\* {"result": {"audioContent": text}}
AudioLine(text) == StreamLine("json", "object", {"result"}, {}, "", {"audioContent"}, text)

\* {"error": {"message": m}}
ErrorLine(m) == StreamLine("json", "object", {"error"}, {"message"}, m, {}, <<>>)

\* {"error": {}}
BareErrorLine == StreamLine("json", "object", {"error"}, {}, "", {}, <<>>)

\* {"result": {}}
EmptyResultLine == StreamLine("json", "object", {"result"}, {}, "", {}, <<>>)

\* "QQ==", "QkM=" and the wrongly padded "QUI"
B64_A == <<16, 16, B64Pad, B64Pad>>

B64_BC == <<16, 36, 12, B64Pad>>

B64_Bad == <<16, 20, 8>>

\* the lines the server can send
LineSamples ==
    { BlankLine, NonUtf8Line, GarbageLine, NumberLine, EmptyResultLine,
      AudioLine(B64_A), AudioLine(B64_BC), AudioLine(B64_Bad),
      ErrorLine("boom"), BareErrorLine }

-----------------------------------------------------------------------------
(* Streaming Synthesis Client: InworldTTSEntity (tts.py) *)

\* the value DEFAULT_LANGUAGE that tts.py imports from const.py
DEFAULT_LANGUAGE == "en"

\* default=None
NoDefault == <<>>

\* _get_config_value(key, default), default given as <<value>> or NoDefault:
\* [ok, value], ok FALSE where ValueError is raised
\* a lookup that asks the data before the options
ConfigValue_DataFirst(key, default) ==
    IF Has(entry.data, key) THEN [ok |-> TRUE, value |-> entry.data[key]]
    ELSE IF Has(entry.options, key) THEN [ok |-> TRUE, value |-> entry.options[key]]
    ELSE IF default # NoDefault THEN [ok |-> TRUE, value |-> default[1]]
    ELSE [ok |-> FALSE, value |-> NoneV]

ConfigValue(key, default) ==
    IF Has(entry.options, key) THEN [ok |-> TRUE, value |-> entry.options[key]]
    ELSE IF Has(entry.data, key) THEN [ok |-> TRUE, value |-> entry.data[key]]
    ELSE IF default # NoDefault THEN [ok |-> TRUE, value |-> default[1]]
    ELSE [ok |-> FALSE, value |-> NoneV]

\* per-call options: None, or a dict that may carry "voice"
CallOptions(keys, voice) == [keys |-> keys, voice |-> IF "voice" \in keys THEN voice ELSE ""]

NoCallOptions == CallOptions({NoneV}, "")

\* results and failures of async_get_tts_audio: kind "audio" is the returned
\* tuple (ext, audio); kind "error" is the exception raised, with its message
\* (msg, detail) and the message of the exception it was raised from (cause)
AudioOutcome(ext, audio) ==
    [kind |-> "audio", ext |-> ext, audio |-> audio, msg |-> "", detail |-> "",
     cause |-> <<>>]

ErrorOutcome(msg, detail, cause) ==
    [kind |-> "error", ext |-> "", audio |-> <<>>, msg |-> msg, detail |-> detail,
     cause |-> cause]

NoOutcome ==
    [kind |-> "none", ext |-> "", audio |-> <<>>, msg |-> "", detail |-> "", cause |-> <<>>]

\* a mapping that answers the default tag for every encoding
FormatOf_AlwaysMp3(audio_encoding) == "mp3"

\* the format tag for the configured encoding
FormatOf(audio_encoding) ==
    LET encoding == Upper(audio_encoding)
    IN  CASE encoding = "MP3" -> "mp3"
          [] encoding = "LINEAR16" -> "wav"
          [] encoding = "OGG_OPUS" -> "opus"
          [] encoding \in {"ALAW", "MULAW"} -> "wav"
          [] OTHER -> "mp3"

\* except clauses that have lost the 429 case
RequestFailure_No429(resp) ==
    CASE resp.kind = "http" /\ resp.status = 401 ->
            ErrorOutcome("Invalid API key", "", <<"ClientResponseError">>)
      [] resp.kind = "http" ->
            ErrorOutcome("HTTP", ToString(resp.status), <<"ClientResponseError">>)
      [] resp.kind = "client_error" ->
            ErrorOutcome("Unable to connect to Inworld API", "", <<"ClientError">>)
      [] OTHER ->
            ErrorOutcome("Unexpected error processing TTS request", "", <<"TimeoutError">>)

\* the except clauses of async_get_tts_audio, for a fault of the request
\* (resp) : ClientResponseError, ClientError, or anything else
RequestFailure(resp) ==
    CASE resp.kind = "http" /\ resp.status = 401 ->
            ErrorOutcome("Invalid API key", "", <<"ClientResponseError">>)
      [] resp.kind = "http" /\ resp.status = 429 ->
            ErrorOutcome("Rate limit exceeded", "", <<"ClientResponseError">>)
      [] resp.kind = "http" ->
            ErrorOutcome("HTTP", ToString(resp.status), <<"ClientResponseError">>)
      [] resp.kind = "client_error" ->
            ErrorOutcome("Unable to connect to Inworld API", "", <<"ClientError">>)
      [] OTHER ->
            ErrorOutcome("Unexpected error processing TTS request", "", <<"TimeoutError">>)

\* the last except clause, for an exception raised while a line is processed
LineFailure(cause) == ErrorOutcome("Unexpected error processing TTS request", "", cause)

\* audio_chunks.append(audio_bytes), put at the wrong end
AppendChunk_Front(audio_chunks, audio_bytes) == <<audio_bytes>> \o audio_chunks

\* audio_chunks.append(audio_bytes)
AppendChunk(audio_chunks, audio_bytes) == Append(audio_chunks, audio_bytes)

RECURSIVE Join(_)
\* b"".join(audio_chunks)
Join(audio_chunks) ==
    IF audio_chunks = <<>> THEN <<>> ELSE Head(audio_chunks) \o Join(Tail(audio_chunks))

\* "error" in chunk_data, never seen
HasError_Never(chunk_data) == FALSE

\* "error" in chunk_data
HasError(chunk_data) == "error" \in chunk_data.keys

\* the body of the loop over response.content for one line: the accumulator
\* afterwards, and exc = <<>> when the loop goes on, else the exception raised
ProcessLine(line, audio_chunks) ==
    CASE line.text = "blank" -> [exc |-> <<>>, audio_chunks |-> audio_chunks]
      [] line.text = "bytes" -> [exc |-> <<"UnicodeDecodeError">>, audio_chunks |-> audio_chunks]
      [] line.text = "garbage" -> [exc |-> <<>>, audio_chunks |-> audio_chunks]
      [] line.jtype # "object" -> [exc |-> <<"TypeError">>, audio_chunks |-> audio_chunks]
      [] HasError(line) ->
            [exc |-> <<"API error", DictGet(line.error, "message", "Unknown error")>>,
             audio_chunks |-> audio_chunks]
      [] "result" \in line.keys /\ "audioContent" \in line.result.keys ->
            IF b64decode(line.result.audioContent).ok
            THEN [exc |-> <<>>,
                  audio_chunks |-> AppendChunk(audio_chunks,
                                               b64decode(line.result.audioContent).bytes)]
            ELSE [exc |-> <<"binascii.Error">>, audio_chunks |-> audio_chunks]
      [] OTHER -> [exc |-> <<>>, audio_chunks |-> audio_chunks]

\* the request of a synthesis call
SynthUrl(api_url) == <<api_url, "/tts/v1/voice:stream">>

NoUrl == <<>>

\* answers to the streaming request: the status line, or a fault before it
SynthStatuses == {200, 401, 429, 500}

SynthResponses ==
    [kind : {"http"}, status : SynthStatuses, voices : {<<>>}]
    \cup [kind : {"client_error", "timeout"}, status : {0}, voices : {<<>>}]

\* the state of a synthesis call. pc: "idle" (no call), "streaming" (inside
\* the loop over response.content) or "done"; requests: HTTP requests issued;
\* arrived: the lines the server has sent so far; eof: the server has closed
\* the body; read: how many of them the loop has consumed; status: the HTTP
\* status received (0 for none); fault: what cut the request short ("" for
\* nothing, "client_error" for an aiohttp.ClientError, "timeout" for the
\* expiry of the total timeout); log: the records _get_config_value has
\* written for the call
CallRecord(pc, language, options, requests, status, fault, url, payload, arrived, eof, read, audio_chunks, outcome, log) ==
    [pc |-> pc, language |-> language, options |-> options, requests |-> requests,
     status |-> status, fault |-> fault,
     url |-> url, payload |-> payload, arrived |-> arrived, eof |-> eof, read |-> read,
     audio_chunks |-> audio_chunks, outcome |-> outcome, log |-> log]

NoCall ==
    CallRecord("idle", "", NoCallOptions, 0, 0, "", NoUrl, NoPayload, <<>>, FALSE, 0, <<>>,
               NoOutcome, {})

\* the call has ended with outcome, before any line was read
Ended(language, options, requests, status, fault, url, payload, outcome, log) ==
    CallRecord("done", language, options, requests, status, fault, url, payload, <<>>, FALSE, 0,
               <<>>, outcome, log)

\* voice_id = self._voice_id, the per-call option never looked at
CallVoice_NoOverride(options) == ConfigValue("voice_id", <<"">>).value

\* voice_id = self._voice_id, replaced by options["voice"] if options and "voice" in options
CallVoice(options) ==
    IF options.keys # {NoneV} /\ options.keys # {} /\ "voice" \in options.keys
    THEN options.voice
    ELSE ConfigValue("voice_id", <<"">>).value

\* the payload of lines 171-180
SynthPayload(message, options) ==
    Payload({"text", "voiceId", "modelId", "temperature", "audioConfig"},
            message, CallVoice(options),
            ConfigValue("model_id", <<DEFAULT_MODEL_ID>>).value,
            ConfigValue("temperature", <<DEFAULT_TEMPERATURE>>).value,
            AudioConfig({"audioEncoding", "sampleRateHertz"},
                        ConfigValue("sample_rate_hertz", <<DEFAULT_SAMPLE_RATE_HERTZ>>).value,
                        ConfigValue("audio_encoding", <<DEFAULT_AUDIO_ENCODING>>).value))

\* a check that asks for the URL alone
MissingConfig_UrlOnly ==
    IF ~ConfigValue("api_url", NoDefault).ok THEN "api_url" ELSE ""

\* the first required configuration value that is not set, "" if none
MissingConfig ==
    IF ~ConfigValue("api_url", NoDefault).ok THEN "api_url"
    ELSE IF ~ConfigValue("api_key", NoDefault).ok THEN "api_key"
    ELSE ""

\* the call gets as far as session.post
SendsRequest(language) ==
    language = ConfigValue("language", <<DEFAULT_LANGUAGE>>).value /\ MissingConfig = ""

\* a record of the debug log: the message, and the key and value put in it
LogRecord(text, key, value) == [text |-> text, key |-> key, value |-> value]

\* what _get_config_value(key, default) logs about the value it finds
LookupLog(key, default) ==
    IF Has(entry.options, key)
    THEN LogRecord("Found in options", key, ToString(entry.options[key]))
    ELSE IF Has(entry.data, key)
    THEN LogRecord("Found in data", key, ToString(entry.data[key]))
    ELSE IF default # NoDefault
    THEN LogRecord("Using default value", key, ToString(default[1]))
    ELSE LogRecord("Required configuration is not set", key, "")

\* the lookups of a call up to the request, in the order of lines 148-178:
\* the language, then the voice and the URL, then the key, then the rest
CallLog(language) ==
    {LookupLog("language", <<DEFAULT_LANGUAGE>>)}
    \cup (IF language # ConfigValue("language", <<DEFAULT_LANGUAGE>>).value THEN {}
          ELSE {LookupLog("voice_id", <<"">>), LookupLog("api_url", NoDefault)})
    \cup (IF language # ConfigValue("language", <<DEFAULT_LANGUAGE>>).value
             \/ ~ConfigValue("api_url", NoDefault).ok THEN {}
          ELSE {LookupLog("api_key", NoDefault)})
    \cup (IF ~SendsRequest(language) THEN {}
          ELSE {LookupLog("model_id", <<DEFAULT_MODEL_ID>>),
                LookupLog("temperature", <<DEFAULT_TEMPERATURE>>),
                LookupLog("audio_encoding", <<DEFAULT_AUDIO_ENCODING>>),
                LookupLog("sample_rate_hertz", <<DEFAULT_SAMPLE_RATE_HERTZ>>)})

\* a call that posts again when the first request has failed
RequestsIssued_RetryOnFault(resp) ==
    IF resp.kind = "http" /\ resp.status < 400 THEN 1 ELSE 2

\* how often _make_streaming_request calls session.post for a call that gets
\* that far, the server answering resp: once, outside of any loop
RequestsIssued(resp) == 1

\* async_get_tts_audio(message, language, options) up to response.raise_for_status(),
\* with the server answering resp to the request, if one is sent
async_get_tts_audio(message, language, options, resp) ==
    /\ entry.exists
    /\ call.pc = "idle"
    /\ IF language # ConfigValue("language", <<DEFAULT_LANGUAGE>>).value
       THEN call' = Ended(language, options, 0, 0, "", NoUrl, NoPayload,
                          ErrorOutcome("Language not supported", language, <<>>),
                          CallLog(language))
       ELSE IF MissingConfig # ""
       THEN call' = Ended(language, options, 0, 0, "", NoUrl, NoPayload,
                          ErrorOutcome("Configuration error", MissingConfig, <<"ValueError">>),
                          CallLog(language))
       ELSE LET url == SynthUrl(ConfigValue("api_url", NoDefault).value)
                payload == SynthPayload(message, options)
            IN  IF resp.kind = "http" /\ resp.status < 400
                THEN call' = CallRecord("streaming", language, options,
                                        RequestsIssued(resp), resp.status, "",
                                        url, payload, <<>>, FALSE, 0, <<>>, NoOutcome,
                                        CallLog(language))
                ELSE call' = Ended(language, options, RequestsIssued(resp), resp.status,
                                   IF resp.kind = "http" THEN "" ELSE resp.kind,
                                   url, payload, RequestFailure(resp), CallLog(language))
    /\ UNCHANGED flow_vars

\* the server sends one more line of the body
StreamArrive(line) ==
    /\ call.pc = "streaming"
    /\ ~call.eof
    /\ Len(call.arrived) < MaxLines
    /\ call' = [call EXCEPT !.arrived = Append(@, line)]
    /\ UNCHANGED flow_vars

\* the server closes the body
StreamClose ==
    /\ call.pc = "streaming"
    /\ ~call.eof
    /\ call' = [call EXCEPT !.eof = TRUE]
    /\ UNCHANGED flow_vars

\* one iteration of: async for line in response.content
StreamReadLine ==
    /\ call.pc = "streaming"
    /\ call.read < Len(call.arrived)
    /\ LET step == ProcessLine(call.arrived[call.read + 1], call.audio_chunks)
       IN  IF step.exc = <<>>
           THEN call' = [call EXCEPT !.read = @ + 1, !.audio_chunks = step.audio_chunks]
           ELSE call' = [call EXCEPT !.read = @ + 1, !.pc = "done", !.audio_chunks = <<>>,
                                     !.outcome = LineFailure(step.exc)]
    /\ UNCHANGED flow_vars

\* a request made without a timeout: nothing ends the wait for a line
StreamBreak_Never(fault) ==
    /\ FALSE
    /\ UNCHANGED vars

\* the body breaks off (ClientPayloadError) or the total timeout of
\* DEFAULT_API_TIMEOUT seconds expires while the loop waits for a line
StreamBreak(fault) ==
    /\ call.pc = "streaming"
    /\ ~call.eof
    /\ call.read = Len(call.arrived)
    /\ call' = [call EXCEPT !.pc = "done", !.audio_chunks = <<>>, !.fault = fault,
                            !.outcome = RequestFailure([kind |-> fault, status |-> 0])]
    /\ UNCHANGED flow_vars

\* the loop ends: join the chunks and return them with the format tag
StreamEnd ==
    /\ call.pc = "streaming"
    /\ call.eof
    /\ call.read = Len(call.arrived)
    /\ call' = [call EXCEPT
                  !.pc = "done",
                  !.outcome = AudioOutcome(
                      FormatOf(ConfigValue("audio_encoding", <<DEFAULT_AUDIO_ENCODING>>).value),
                      Join(call.audio_chunks)),
                  !.log = @ \cup {LookupLog("audio_encoding", <<DEFAULT_AUDIO_ENCODING>>)}]
    /\ UNCHANGED flow_vars

\* the caller has the result; the entity is ready for the next call
CallReturn ==
    /\ call.pc = "done"
    /\ call' = NoCall
    /\ UNCHANGED flow_vars

-----------------------------------------------------------------------------
(* Specification of the two flows: one credentials flow, then options      *)
(* sessions of the created entry                                           *)

Init ==
    /\ entry = NoEntry
    /\ of_alive = [s \in Sessions |-> FALSE]
    /\ of_catalog = [s \in Sessions |-> EmptyCatalog]
    /\ of_language = [s \in Sessions |-> NoneV]
    /\ last = NoStep
    /\ call = NoCall

Next ==
    \/ async_step_user_show
    \/ \E user_input \in CredInputs : \E resp \in UserFetchResponses(user_input) :
            async_step_user(user_input, resp)
    \/ OptionsFlowInit("s1")
    \/ \E user_input \in OptionInputs \cup {NoInput} :
          \E probe_resp \in InitProbeResponses("s1", user_input) :
            \E fetch_resp \in InitFetchResponses("s1", user_input, probe_resp) :
              async_step_init("s1", user_input, probe_resp, fetch_resp)
    \/ \E user_input \in OptionInputs \cup {NoInput}, at \in {"probe", "fetch"} :
          \E probe_resp \in CancelledProbeResponses("s1", user_input, at) :
              async_step_init_cancelled("s1", user_input, probe_resp, at)
    \/ TakeResult

Spec == Init /\ [][Next]_vars

-----------------------------------------------------------------------------
(* Specification of two options sessions of one entry, their steps        *)
(* interleaved in any order                                               *)

\* the first rendering, and two full submissions
SessionInputs ==
    { NoInput,
      WithSelection(FormAdvanced, {"language"}, "en", {"voice_id"}, "v1"),
      WithSelection(FormAdvanced, {"language"}, "fr", {"voice_id"}, "v3") }

\* the probe is accepted or refused
SessionProbeResponses(s, user_input) ==
    {r \in InitProbeResponses(s, user_input) : r.voices = <<>> /\ r.status # 401}

\* the fetch is answered with a list that names a language, or is refused
SessionFetchResponses(s, user_input, probe_resp) ==
    {r \in InitFetchResponses(s, user_input, probe_resp) :
        /\ r.status # 401
        /\ r.status = 200 => (r.voices # <<>> /\ ~VoiceKeyError(r.voices))}

InitSessions ==
    /\ entry = CreatedEntry(Creds({"api_url", "api_key"}, DEFAULT_API_BASE_URL, "K"))
    /\ of_alive = [s \in Sessions |-> FALSE]
    /\ of_catalog = [s \in Sessions |-> EmptyCatalog]
    /\ of_language = [s \in Sessions |-> NoneV]
    /\ last = NoStep
    /\ call = NoCall

NextSessions ==
    \/ \E s \in Sessions : OptionsFlowInit(s)
    \/ \E s \in Sessions, user_input \in SessionInputs :
          \E probe_resp \in SessionProbeResponses(s, user_input) :
            \E fetch_resp \in SessionFetchResponses(s, user_input, probe_resp) :
              async_step_init(s, user_input, probe_resp, fetch_resp)
    \/ \E s \in Sessions, user_input \in SessionInputs, at \in {"probe", "fetch"} :
          \E probe_resp \in CancelledProbeResponses(s, user_input, at) :
              async_step_init_cancelled(s, user_input, probe_resp, at)
    \/ TakeResult

SpecSessions == InitSessions /\ [][NextSessions]_vars


-----------------------------------------------------------------------------
(* Specification of synthesis calls on a configured entry *)

\* configurations the flows leave behind, and one whose data lacks the key
StreamEntries ==
    { [exists |-> TRUE, data |-> Creds({"api_url", "api_key"}, DEFAULT_API_BASE_URL, "K"),
       options |-> NoAnswers],
      [exists |-> TRUE, data |-> Creds({"api_url", "api_key"}, DEFAULT_API_BASE_URL, "K"),
       options |-> Answers(OptionFields, "fr", "v3", "inworld-tts-1-max", "OGG_OPUS", 24000, 12)],
      [exists |-> TRUE, data |-> Creds({"api_url"}, DEFAULT_API_BASE_URL, ""),
       options |-> NoAnswers] }

Messages == {"hello"}

CallLanguages == {"en", "fr"}

CallOptionsInputs == {NoCallOptions, CallOptions({}, ""), CallOptions({"voice"}, "v9")}

\* the answers to the request of a call, if it sends one
CallResponses(language) ==
    IF SendsRequest(language) THEN SynthResponses ELSE {NoResponse}

InitStream ==
    /\ entry \in StreamEntries
    /\ of_alive = [s \in Sessions |-> FALSE]
    /\ of_catalog = [s \in Sessions |-> EmptyCatalog]
    /\ of_language = [s \in Sessions |-> NoneV]
    /\ last = NoStep
    /\ call = NoCall

NextStream ==
    \/ \E message \in Messages, language \in CallLanguages, options \in CallOptionsInputs :
         \E resp \in CallResponses(language) :
            async_get_tts_audio(message, language, options, resp)
    \/ \E line \in LineSamples : StreamArrive(line)
    \/ StreamClose
    \/ StreamReadLine
    \/ \E fault \in {"client_error", "timeout"} : StreamBreak(fault)
    \/ StreamEnd
    \/ CallReturn

SpecStream == InitStream /\ [][NextStream]_vars
-----------------------------------------------------------------------------
(* Specification of synthesis calls on an entry whose options are replaced *)
(* by completed options flows between and during the calls               *)

\* the options an options flow can have stored: none yet, or a full
\* submission with any member of the encoding enumeration
ConfiguredOptions ==
    {NoAnswers}
    \cup { Answers(OptionFields, "en", "v1", "inworld-tts-1-max", enc, 24000, 12) :
             enc \in SupportedAudioEncodings }

\* the data a credentials step can have stored: the two credentials, the
\* two credentials and a voice_id besides, or the URL alone
ConfiguredData ==
    { Creds({"api_url", "api_key"}, DEFAULT_API_BASE_URL, "K"),
      [keys |-> {"api_url", "api_key", "voice_id"}, api_url |-> DEFAULT_API_BASE_URL,
       api_key |-> "K", voice_id |-> "v7"],
      Creds({"api_url"}, DEFAULT_API_BASE_URL, "") }

ConfiguredEntries ==
    { [exists |-> TRUE, data |-> d, options |-> o] :
        d \in ConfiguredData, o \in ConfiguredOptions }

ConfiguredLines == {BlankLine, AudioLine(B64_A), ErrorLine("boom")}

\* an options flow completes with user_input: the entity reads the entry it
\* was given at construction, so it sees the new options at its next lookup
Reconfigure(user_input) ==
    /\ entry.exists
    /\ entry' = UpdatedEntry(entry, user_input)
    /\ UNCHANGED <<of_alive, of_catalog, of_language, last, call>>

InitConfigured ==
    /\ entry \in ConfiguredEntries
    /\ of_alive = [s \in Sessions |-> FALSE]
    /\ of_catalog = [s \in Sessions |-> EmptyCatalog]
    /\ of_language = [s \in Sessions |-> NoneV]
    /\ last = NoStep
    /\ call = NoCall

NextConfigured ==
    \/ \E message \in Messages, options \in CallOptionsInputs :
         \E resp \in CallResponses("en") :
            async_get_tts_audio(message, "en", options, resp)
    \/ \E line \in ConfiguredLines : StreamArrive(line)
    \/ StreamClose
    \/ StreamReadLine
    \/ \E fault \in {"client_error", "timeout"} : StreamBreak(fault)
    \/ StreamEnd
    \/ CallReturn
    \/ \E user_input \in ConfiguredOptions : Reconfigure(user_input)

SpecConfigured == InitConfigured /\ [][NextConfigured]_vars

-----------------------------------------------------------------------------
(* Specification of synthesis calls under the scheduling of the event     *)
(* loop: a line that has arrived is read, the end of the body ends the     *)
(* loop, and the timer of ClientTimeout(total=DEFAULT_API_TIMEOUT) goes    *)
(* off while the loop waits; the server is under no obligation at all      *)

InitTimed ==
    /\ entry = CreatedEntry(Creds({"api_url", "api_key"}, DEFAULT_API_BASE_URL, "K"))
    /\ of_alive = [s \in Sessions |-> FALSE]
    /\ of_catalog = [s \in Sessions |-> EmptyCatalog]
    /\ of_language = [s \in Sessions |-> NoneV]
    /\ last = NoStep
    /\ call = NoCall

NextTimed ==
    \/ \E message \in Messages, options \in CallOptionsInputs :
         \E resp \in CallResponses("en") :
            async_get_tts_audio(message, "en", options, resp)
    \/ \E line \in ConfiguredLines : StreamArrive(line)
    \/ StreamClose
    \/ StreamReadLine
    \/ \E fault \in {"client_error", "timeout"} : StreamBreak(fault)
    \/ StreamEnd
    \/ CallReturn

SpecTimed ==
    /\ InitTimed /\ [][NextTimed]_vars
    /\ WF_vars(StreamReadLine)
    /\ WF_vars(StreamEnd)
    /\ WF_vars(StreamBreak("timeout"))


-----------------------------------------------------------------------------
(* Properties of the flows *)

\* the step just taken was an options step of session s
InitStepOf(s) == of_alive[s] /\ last'.op = "init" /\ last'.sid = s /\ call' = call

\* the credentials form is shown again with the given error code and no entry exists
CredentialsReshown(code) ==
    /\ last.result.type = "form"
    /\ last.result.step_id = "user"
    /\ last.result.errors = code
    /\ ~entry.exists

LanguageAtProbe(s, user_input) ==
    IF LanguageChanged(of_language[s], user_input) THEN user_input.language ELSE of_language[s]

\* the values listed in the catalog for a language (none when it has no such key)
CatalogValues(catalog, language) ==
    IF language \in DOMAIN catalog
    THEN {catalog[language][k].value : k \in 1..Len(catalog[language])}
    ELSE {}

C3_LanguageChangeReshows ==
    [][\A s \in Sessions :
        (/\ InitStepOf(s)
         /\ LanguageChanged(of_language[s], last'.input)
         /\ \/ ~Has(last'.input, "voice_id")
            \/ last'.input.voice_id \notin CatalogValues(of_catalog[s], last'.input.language))
        => /\ last'.result.type = "form"
           /\ last'.result.step_id = "init"
           /\ last'.result.form.language = last'.input.language
           /\ OptionValues(last'.result.form.voice_options)
                = CatalogValues(of_catalog[s], last'.input.language)
           /\ "probe" \notin last'.called
           /\ ~last'.probe.sent
           /\ entry' = entry
           /\ of_alive'[s]]_vars

C3_Witness ==
    /\ last.op = "init"
    /\ last.called = {}
    /\ last.before = "en"
    /\ Has(last.input, "language") /\ Has(last.input, "voice_id")
    /\ last.input.language = "fr" /\ last.input.voice_id = "v1"
    /\ last.result.type = "form"
    /\ OptionValues(last.result.form.voice_options) = {"v2", "v3"}

\* the probe request carries the submission's voice, model, temperature and sample rate
ProbeIsForInput(probe, input) ==
    /\ probe.payload.voiceId = input.voice_id
    /\ probe.payload.modelId = input.model_id
    /\ Has(input, "temperature") =>
          Has(probe.payload, "temperature") /\ probe.payload.temperature = input.temperature
    /\ Has(input, "sample_rate_hertz") =>
          /\ Has(probe.payload, "audioConfig")
          /\ probe.payload.audioConfig.sampleRateHertz = input.sample_rate_hertz

C5_Original ==
    (last.op = "user" /\ last.fetch.sent /\ last.fetch.exc = "") =>
        /\ last.result.type = "form"
        /\ last.result.step_id # "user"
        /\ ~entry.exists

\* C5 amended: a credentials submission whose fetch succeeds completes the
\* credentials flow at once: the entry is created with exactly the submitted
\* credentials as data and no options, and the step makes no probe
C5_CredentialsComplete ==
    (last.op = "user" /\ "fetch" \in last.called) =>
        IF last.fetch.sent /\ last.fetch.exc = ""
        THEN /\ last.result.type = "create_entry"
             /\ last.result.title = TITLE
             /\ entry.exists
             /\ entry.data = last.creds
             /\ entry.options = NoAnswers
             /\ "probe" \notin last.called /\ ~last.probe.sent
        ELSE ~entry.exists /\ last.result.type = "form"

C5_Witness ==
    /\ last.op = "user"
    /\ last.fetch.sent /\ last.fetch.exc = ""
    /\ entry.exists
    /\ entry.options = NoAnswers

\* C6: the probe request carries the submitted voiceId, modelId, temperature,
\* sampleRateHertz and audioEncoding
C6_ProbeCarriesAnswers ==
    (last.op = "init" /\ last.probe.sent) =>
        /\ ProbeIsForInput(last.probe, last.input)
        /\ Has(last.input, "audio_encoding") =>
              /\ Has(last.probe.payload, "audioConfig")
              /\ last.probe.payload.audioConfig.audioEncoding = last.input.audio_encoding

-----------------------------------------------------------------------------
(* Properties of synthesis calls *)

\* the bytes that the base64 texts of the audio lines stand for: "A", "BC"
Plaintext(text) ==
    CASE text = B64_A -> <<65>>
      [] text = B64_BC -> <<66, 67>>
      [] OTHER -> <<>>

IsAudioLine(line) ==
    /\ line.text = "json" /\ line.jtype = "object"
    /\ "result" \in line.keys /\ "audioContent" \in line.result.keys

HasErrorField(line) ==
    line.text = "json" /\ line.jtype = "object" /\ "error" \in line.keys

RECURSIVE AudioOf(_)
\* the plaintexts of the audio lines of a body, one after the other
AudioOf(lines) ==
    IF lines = <<>> THEN <<>>
    ELSE (IF IsAudioLine(Head(lines)) THEN Plaintext(Head(lines).result.audioContent)
          ELSE <<>>) \o AudioOf(Tail(lines))

\* C7: the audio a synthesis call returns is the concatenation of the decoded
\* audioContent of every audio line of the response, in the order the lines
\* arrived, however the arrivals interleave with the reading
C7_AudioIsConcatenation ==
    (call.pc = "done" /\ call.outcome.kind = "audio") =>
        call.outcome.audio = AudioOf(call.arrived)

\* a call has returned "A" + "BC" + "A" from three audio lines
C7_Witness ==
    /\ call.pc = "done" /\ call.outcome.kind = "audio"
    /\ call.arrived = <<AudioLine(B64_A), AudioLine(B64_BC), AudioLine(B64_A)>>
    /\ call.outcome.audio = <<65, 66, 67, 65>>

\* C8: once a line with an error field has been read the call has failed
\* without audio and has read nothing after that line; a call that returns
\* audio has seen no such line
C8_ErrorLineAborts ==
    /\ \A i \in 1..Len(call.arrived) :
          (i <= call.read /\ HasErrorField(call.arrived[i])) =>
              /\ call.pc = "done"
              /\ call.outcome.kind = "error"
              /\ call.outcome.audio = <<>>
              /\ call.audio_chunks = <<>>
              /\ call.read = i
    /\ (call.pc = "done" /\ call.outcome.kind = "audio") =>
          \A i \in 1..Len(call.arrived) : ~HasErrorField(call.arrived[i])

\* a call failed on an error line that followed an audio line and was itself
\* followed by another audio line
C8_Witness ==
    /\ call.pc = "done" /\ call.outcome.kind = "error"
    /\ call.arrived = <<AudioLine(B64_A), ErrorLine("boom"), AudioLine(B64_BC)>>
    /\ call.read = 2

\* the messages of the failures for transport faults and for uncategorized faults
TransportMessages == {"HTTP", "Unable to connect to Inworld API"}

UncategorizedMessage == "Unexpected error processing TTS request"

\* C9: a call that ends on a stream line {"error": {"message": m}} fails with
\* an outcome that carries m and is neither the transport outcome nor the
\* outcome of uncategorized faults
C9_ProtocolErrorOutcome ==
    (/\ call.pc = "done" /\ call.read > 0
     /\ HasErrorField(call.arrived[call.read])
     /\ "message" \in call.arrived[call.read].error.keys) =>
        /\ call.outcome.kind = "error"
        /\ call.outcome.detail = call.arrived[call.read].error.message
        /\ call.outcome.msg \notin TransportMessages \cup {UncategorizedMessage}

\* a line that is blank or does not parse as JSON
IsNoiseLine(line) == line.text \in {"blank", "bytes", "garbage"}

\* C10: reading a blank line or a line that does not parse as JSON leaves the
\* accumulator unchanged and does not end the call
C10_NoiseLinesSkipped ==
    [][(call.pc = "streaming" /\ call'.read = call.read + 1
        /\ IsNoiseLine(call.arrived[call'.read])) =>
            /\ call'.pc = "streaming"
            /\ call'.audio_chunks = call.audio_chunks]_vars

\* the messages of the failures for a rejected key and for a rate limit
AuthMessage == "Invalid API key"

RateLimitMessage == "Rate limit exceeded"

\* the call failed with a message out of the set
FailedWith(messages) ==
    call.pc = "done" /\ call.outcome.kind = "error" /\ call.outcome.msg \in messages

C12_TimeoutIsTransport ==
    (call.pc = "done" /\ call.fault = "timeout") =>
        /\ FailedWith({"Unable to connect to Inworld API"})
        /\ call.outcome.msg # UncategorizedMessage

\* C13: a credentials submission whose catalog fetch exceeds the request
\* timeout fails with the connect error and re-shows the form with cannot_connect
C13_FetchTimeoutIsConnect ==
    (last.op = "user" /\ last.fetch.sent /\ last.fetch.resp.kind = "timeout") =>
        /\ last.fetch.exc = "CannotConnect"
        /\ CredentialsReshown("cannot_connect")

\* the request of a flow (the fetch or the probe) was answered with an error status
ErrorStatus(request) == request.resp.kind = "http" /\ request.resp.status >= 400

\* the auth error exactly for 401, the connect error for the other error
\* statuses and for client errors
FaultsClassified(request) ==
    request.sent =>
        /\ request.exc = "InvalidAuth" <=> (ErrorStatus(request) /\ request.resp.status = 401)
        /\ \/ (ErrorStatus(request) /\ request.resp.status # 401)
           \/ request.resp.kind = "client_error"
              => request.exc = "CannotConnect"

ProbeFailed == last.op = "init" /\ "probe" \in last.called /\ last.probe.exc # ""

\* the code that stands for an exception
CodeFor(exc) ==
    CASE exc = "InvalidAuth" -> "invalid_auth"
      [] exc = "CannotConnect" -> "cannot_connect"
      [] OTHER -> "unknown"

\* C15: when the probe fails the options form is shown again with the code
\* of that failure, whatever the session's catalog
C15_ProbeErrorShown ==
    ProbeFailed =>
        /\ last.result.type = "form" /\ last.result.step_id = "init"
        /\ last.result.errors = CodeFor(last.probe.exc)

\* C16: when the probe fails the form shown again has the submitted values
\* as its defaults
C16_SubmittedValuesKept ==
    ProbeFailed =>
        \A field \in last.input.keys \cap OptionFields :
            last.result.form[field] = last.input[field]

\* the server answered 401 to a request of the step just recorded
Answered401(request) == request.resp.kind = "http" /\ request.resp.status = 401

\* C17: a step during which the server answered 401 shows invalid_auth
C17_UnauthorizedShown ==
    (last.op \in {"user", "init"} /\ (Answered401(last.fetch) \/ Answered401(last.probe))) =>
        /\ last.result.type = "form"
        /\ last.result.errors = "invalid_auth"

ErrorCodes == {"invalid_auth", "cannot_connect", "unknown"}

C19_OptionsOnly ==
    [][entry.exists =>
          /\ entry'.exists
          /\ entry'.data = entry.data
          /\ (last' # last /\ last'.op = "init" /\ last'.result.type = "create_entry")
                => entry'.options = last'.input]_vars

\* an options flow has completed: the options are the submission, the
\* credentials are those of the credentials step
C19_Witness ==
    /\ last.op = "init" /\ last.result.type = "create_entry"
    /\ entry.options = last.input /\ entry.options.keys = OptionFields
    /\ entry.data = Creds({"api_url", "api_key"}, DEFAULT_API_BASE_URL, "K")

\* no value occurs twice in a list of voices
UniqueValues(voices) ==
    \A i, j \in 1..Len(voices) : voices[i].value = voices[j].value => i = j

\* C20: in every catalog the fetcher returns, every language maps to a
\* non-empty list in which no voice id occurs twice
C20_CatalogWellFormed ==
    \A s \in Sessions : \A l \in DOMAIN of_catalog[s] :
        /\ of_catalog[s][l] # <<>>
        /\ UniqueValues(of_catalog[s][l])

-----------------------------------------------------------------------------
(* Properties of the request parameters and of the format tag *)

\* the persisted value of key: the options first, then the data, then the
\* default of the integration
Persisted(key, default) ==
    IF key \in entry.options.keys THEN entry.options[key]
    ELSE IF key \in entry.data.keys THEN entry.data[key]
    ELSE default

\* the per-call options carry a voice
OverridesVoice(options) ==
    options.keys # {NoneV} /\ "voice" \in options.keys

\* C21: the request of a synthesis call carries the persisted model_id,
\* audio_encoding, sample_rate_hertz and temperature as they are when the
\* call is made, and the persisted voice_id unless the per-call options carry
\* a voice, which then is the voiceId sent
C21_RequestIsPersistedConfig ==
    [][(call.pc = "idle" /\ call'.requests = 1) =>
          /\ call'.payload.modelId = Persisted("model_id", DEFAULT_MODEL_ID)
          /\ call'.payload.temperature = Persisted("temperature", DEFAULT_TEMPERATURE)
          /\ call'.payload.audioConfig.audioEncoding
                = Persisted("audio_encoding", DEFAULT_AUDIO_ENCODING)
          /\ call'.payload.audioConfig.sampleRateHertz
                = Persisted("sample_rate_hertz", DEFAULT_SAMPLE_RATE_HERTZ)
          /\ call'.payload.voiceId = IF OverridesVoice(call'.options)
                                     THEN call'.options.voice
                                     ELSE Persisted("voice_id", "")]_vars

\* a request was sent with an overriding voice and the stored OGG_OPUS options
C21_Witness ==
    /\ call.requests = 1 /\ OverridesVoice(call.options)
    /\ call.payload.voiceId = "v9"
    /\ entry.options.keys = OptionFields /\ entry.options.voice_id = "v1"
    /\ call.payload.modelId = "inworld-tts-1-max"
    /\ call.payload.temperature = 12
    /\ call.payload.audioConfig.audioEncoding = "OGG_OPUS"
    /\ call.payload.audioConfig.sampleRateHertz = 24000

\* the table of format tags, by member of the encoding enumeration
FormatTable ==
    [MP3 |-> "mp3", LINEAR16 |-> "wav", OGG_OPUS |-> "opus", ALAW |-> "wav", MULAW |-> "wav"]

\* the content type a format tag stands for
TagContentType == [mp3 |-> "audio/mpeg", wav |-> "audio/wav", opus |-> "audio/opus"]

\* C22: the format tag returned with the audio is the table's tag for the
\* configured audio_encoding, whatever the server sent, and it stands for
\* the content type of that member of the encoding enumeration
C22_FormatFollowsEncoding ==
    [][(call.pc = "streaming" /\ call'.outcome.kind = "audio") =>
          LET member == Upper(Persisted("audio_encoding", DEFAULT_AUDIO_ENCODING))
          IN  /\ member \in SupportedAudioEncodings
              /\ call'.outcome.ext = FormatTable[member]
              /\ TagContentType[call'.outcome.ext] = ContentTypeOf(member)]_vars

\* audio was returned as wav for a stored ALAW encoding after a request that
\* was sent with another encoding
C22_Witness ==
    /\ call.pc = "done" /\ call.outcome.kind = "audio" /\ call.outcome.ext = "wav"
    /\ Has(entry.options, "audio_encoding") /\ entry.options.audio_encoding = "ALAW"
    /\ call.payload.audioConfig.audioEncoding = "OGG_OPUS"
    /\ call.outcome.audio = <<65>>

\* C23: no log record of a synthesis call carries the value of api_key
C23_KeyNeverLogged ==
    \A rec \in call.log :
        Has(entry.data, "api_key") => rec.value # ToString(entry.data.api_key)

-----------------------------------------------------------------------------
(* Properties of cancelled steps and of concurrent sessions *)

\* C24: an options step that the host cancels while its probe or its fetch
\* is in flight leaves the session's selected language, its catalog and the
\* entry as they were when the step began
C24_CancelledStepChangesNothing ==
    [][(last' # last /\ last'.op = "cancelled") =>
          /\ of_language' = of_language
          /\ of_catalog' = of_catalog
          /\ entry' = entry]_vars

\* the step just taken was made by session s: its flow object was
\* constructed, or one of its options steps ran
StepBy(s) ==
    \/ ~of_alive[s] /\ of_alive'[s]
    \/ last' # last /\ last'.op \in {"init", "cancelled"} /\ last'.sid = s

\* C25: the catalog and the selected language of an options session change
\* only in steps of that session, and the form a step of the session shows
\* is the form of that session's own catalog and selected language
C25_SessionsIsolated ==
    [][\A s \in Sessions :
          /\ (of_catalog'[s] # of_catalog[s] \/ of_language'[s] # of_language[s])
                => StepBy(s)
          /\ (last' # last /\ last'.op = "init" /\ last'.sid = s
                /\ last'.result.type = "form")
                => last'.result.form
                      = ShowOptionsForm(of_catalog'[s], of_language'[s], entry.options)]_vars

\* two sessions are open with different catalogs and different selected
\* languages, and the second has just shown its form
C25_Witness ==
    /\ of_alive["s1"] /\ of_alive["s2"]
    /\ DOMAIN of_catalog["s1"] # {} /\ DOMAIN of_catalog["s2"] # {}
    /\ of_catalog["s1"] # of_catalog["s2"]
    /\ of_language["s1"] = "fr" /\ of_language["s2"] = "en"
    /\ last.op = "init" /\ last.sid = "s2" /\ last.result.type = "form"
    /\ last.result.form.language = "en"

-----------------------------------------------------------------------------
(* Properties of the catalog and of the options form *)

\* C26: a form rendered while the session's catalog has no language offers
\* voice_id as free text; a submission made to a session whose catalog has
\* no language is probed unless it only changes the selected language, and
\* it changes the entry only if that probe, made for the submitted voice,
\* succeeded
C26_FreeTextVoiceIsProbed ==
    [][\A s \in Sessions : InitStepOf(s) =>
          /\ (last'.result.type = "form" /\ DOMAIN of_catalog'[s] = {}) =>
                /\ last'.result.form.voice_kind = "text"
                /\ last'.result.form.voice_options = <<>>
                /\ last'.result.form.language_options = <<>>
          /\ (DOMAIN of_catalog[s] = {} /\ Given(last'.input)) =>
                /\ ~LanguageChanged(of_language[s], last'.input) => "probe" \in last'.called
                /\ entry' # entry =>
                      /\ last'.probe.sent /\ last'.probe.exc = ""
                      /\ last'.probe.resp.kind = "http" /\ last'.probe.resp.status < 400
                      /\ last'.probe.payload.voiceId = last'.input.voice_id]_vars

\* a session without a catalog has stored a submission after its probe
C26_Witness ==
    /\ last.op = "init" /\ last.known = {} /\ Given(last.input)
    /\ last.result.type = "create_entry"
    /\ last.probe.sent /\ last.probe.resp.status = 200
    /\ entry.options = last.input /\ entry.options.voice_id = "v3"

\* the languages a voice record of the API lists
LanguagesOf(voice) ==
    IF "languages" \in voice.keys
    THEN {voice.languages[j] : j \in 1..Len(voice.languages)}
    ELSE {}

\* the catalog item of a voice record: its id, labelled with its display
\* name if it has one that is not empty
ItemOf(voice) ==
    [value |-> voice.voiceId,
     label |-> IF "displayName" \in voice.keys /\ voice.displayName # ""
               THEN voice.displayName ELSE voice.voiceId]

RECURSIVE Listed(_, _)
\* the items of the voices that list language l, in the order of the voices,
\* a voice that lists l several times being counted each time
Listed(voices, l) ==
    IF voices = <<>> THEN <<>>
    ELSE LET voice == Head(voices)
             n == IF "languages" \in voice.keys
                  THEN Cardinality({j \in 1..Len(voice.languages) : voice.languages[j] = l})
                  ELSE 0
         IN  [k \in 1..n |-> ItemOf(voice)] \o Listed(Tail(voices), l)

\* an options step has fetched the catalog of its session
Fetched == last.op = "init" /\ last.fetch.sent /\ last.fetch.exc = ""

\* C27: the catalog a step has fetched has a key for every language some
\* voice of the answer lists and no other, and under each key the items of
\* the voices that list it, in the order of the answer, each with the voice
\* id as value and the display name, or else the voice id, as label; a voice
\* id is found under a language exactly when a record with that id lists it
C27_CatalogIsInversion ==
    Fetched =>
        LET voices == last.fetch.resp.body
            catalog == of_catalog[last.sid]
        IN  /\ DOMAIN catalog = UNION {LanguagesOf(voices[i]) : i \in 1..Len(voices)}
            /\ \A l \in DOMAIN catalog : catalog[l] = Listed(voices, l)
            /\ \A i \in 1..Len(voices) : \A l \in DOMAIN catalog :
                  (\E k \in 1..Len(catalog[l]) : catalog[l][k].value = voices[i].voiceId)
                     <=> (\E j \in 1..Len(voices) :
                             /\ voices[j].voiceId = voices[i].voiceId
                             /\ l \in LanguagesOf(voices[j]))

\* the catalog of the answer v1 (en), v2 (en, fr), v3 (fr, empty display
\* name), v4 (no languages)
C27_Witness ==
    /\ Fetched /\ Len(last.fetch.resp.body) = 4
    /\ of_catalog[last.sid]
          = [en |-> <<[value |-> "v1", label |-> "Voice One"], [value |-> "v2", label |-> "v2"]>>,
             fr |-> <<[value |-> "v2", label |-> "v2"], [value |-> "v3", label |-> "v3"]>>]

\* the voices endpoint answered the fetch of the step with a list in which
\* some record has no voiceId
AnsweredNamelessVoice ==
    /\ last.op \in {"user", "init"} /\ last.fetch.sent
    /\ last.fetch.resp.kind = "http" /\ last.fetch.resp.status = 200
    /\ \E i \in 1..Len(last.fetch.resp.body) : "voiceId" \notin last.fetch.resp.body[i].keys

\* C28: a fetch answered with a voice record that has no voiceId succeeds,
\* and the catalog it returns is that of the other records
C28_NamelessVoiceSkipped ==
    AnsweredNamelessVoice =>
        /\ last.fetch.exc = ""
        /\ last.op = "init" =>
              \A l \in DOMAIN of_catalog[last.sid] :
                  of_catalog[last.sid][l]
                     = Listed(SelectSeq(last.fetch.resp.body,
                                        LAMBDA voice : "voiceId" \in voice.keys), l)

\* an options step has shown the options form
FormShown == last.op = "init" /\ last.result.type = "form"

\* the first of a non-empty set of language codes in sorted order
FirstKey(keys) ==
    LangOrder[CHOOSE i \in 1..Len(LangOrder) :
                 /\ LangOrder[i] \in keys
                 /\ \A j \in 1..(i - 1) : LangOrder[j] \notin keys]

\* neither the session, nor the submission of the step, nor the stored
\* options name a language
NoLanguageChosen ==
    /\ last.before = NoneV
    /\ ~(Given(last.input) /\ Has(last.input, "language"))
    /\ ~Has(entry.options, "language")

\* C29: a form rendered with a catalog that has a language, when no
\* language was chosen in the session or stored in the options, shows the
\* first catalog key in sorted order as selected, and that key is the
\* session's selected language afterwards
C29_DefaultsToFirstLanguage ==
    (FormShown /\ DOMAIN of_catalog[last.sid] # {} /\ NoLanguageChosen) =>
        /\ last.result.form.language = FirstKey(DOMAIN of_catalog[last.sid])
        /\ of_language[last.sid] = FirstKey(DOMAIN of_catalog[last.sid])

\* the first rendering of a new entry's options, the catalog having en and fr
C29_Witness ==
    /\ FormShown /\ NoLanguageChosen /\ last.input = NoInput
    /\ DOMAIN of_catalog[last.sid] = {"en", "fr"}
    /\ last.result.form.language = "en"
    /\ of_language[last.sid] = "en"

\* the ids in a list of voices
ValuesOf(voices) == {voices[k].value : k \in 1..Len(voices)}

\* C30: in every rendered options form the language choices are the catalog
\* keys in sorted order; if the voice is an enumerated choice, the choices
\* are the voices the catalog has for the language shown as selected, and
\* the default voice is the stored voice if it is one of them and else the
\* first of the list; the voice is free text only if the catalog has no
\* voice for the language shown
C30_FormConsistent ==
    FormShown =>
        LET form == last.result.form
            catalog == of_catalog[last.sid]
            stored == IF Has(entry.options, "voice_id") THEN entry.options.voice_id ELSE ""
        IN  /\ Len(form.language_options) = Cardinality(DOMAIN catalog)
            /\ \A l \in DOMAIN catalog :
                  \E i \in 1..Len(form.language_options) : form.language_options[i] = l
            /\ \A i, j \in 1..Len(form.language_options) :
                  i < j => LangRank(form.language_options[i]) < LangRank(form.language_options[j])
            /\ form.voice_kind \in {"choice", "text"}
            /\ form.voice_kind = "choice" =>
                  /\ form.language \in DOMAIN catalog
                  /\ ValuesOf(form.voice_options) = ValuesOf(catalog[form.language])
                  /\ form.voice_id \in ValuesOf(form.voice_options)
                  /\ form.voice_id = IF stored \in ValuesOf(catalog[form.language])
                                     THEN stored
                                     ELSE catalog[form.language][1].value
            /\ form.voice_kind = "text" => form.language \notin DOMAIN catalog

\* a form for fr, whose voices are v2 and v3, with the stored v3 as default
C30_Witness ==
    /\ FormShown /\ last.result.form.voice_kind = "choice"
    /\ last.result.form.language = "fr"
    /\ last.result.form.language_options = <<"en", "fr">>
    /\ ValuesOf(last.result.form.voice_options) = {"v2", "v3"}
    /\ entry.options.voice_id = "v3"
    /\ last.result.form.voice_id = "v3"

-----------------------------------------------------------------------------
(* Properties of the configuration lookup and of the requests of a call *)

\* the keys the entity looks up with a default of const.py, as text
CompiledDefaults ==
    [voice_id |-> ToString(""), model_id |-> ToString(DEFAULT_MODEL_ID),
     audio_encoding |-> ToString(DEFAULT_AUDIO_ENCODING),
     sample_rate_hertz |-> ToString(DEFAULT_SAMPLE_RATE_HERTZ),
     temperature |-> ToString(DEFAULT_TEMPERATURE)]

\* a synthesis call has just been made
CallMade == call.pc = "idle" /\ call'.pc # "idle"

\* C31: every lookup of a synthesis call finds the value of the stored
\* options if the key is there, else the value of the stored data if the key
\* is there, else the default of the key; the call fails for a missing
\* configuration value exactly when a key without default is in neither; the
\* voice sent without a per-call voice is the voice_id found in that order
C31_LookupOrder ==
    [][CallMade =>
          /\ \A rec \in call'.log :
                IF rec.key \in entry.options.keys
                THEN rec.text = "Found in options"
                     /\ rec.value = ToString(entry.options[rec.key])
                ELSE IF rec.key \in entry.data.keys
                THEN rec.text = "Found in data" /\ rec.value = ToString(entry.data[rec.key])
                ELSE IF rec.key \in DOMAIN CompiledDefaults
                THEN rec.text = "Using default value"
                     /\ rec.value = CompiledDefaults[rec.key]
                ELSE rec.key = "language"
                     \/ /\ rec.text = "Required configuration is not set"
                        /\ call'.outcome.msg = "Configuration error"
                        /\ call'.outcome.detail = rec.key
          /\ call'.outcome.msg = "Configuration error" =>
                /\ call'.outcome.detail \in {"api_url", "api_key"}
                /\ call'.outcome.detail \notin entry.options.keys \cup entry.data.keys
          /\ (call'.requests = 1 /\ ~OverridesVoice(call'.options)) =>
                call'.payload.voiceId
                   = IF "voice_id" \in entry.options.keys THEN entry.options.voice_id
                     ELSE IF "voice_id" \in entry.data.keys THEN entry.data.voice_id
                     ELSE ""]_vars

\* a call has sent the voice of the options although the data has one too
C31_Witness ==
    /\ call.requests = 1 /\ ~OverridesVoice(call.options)
    /\ Has(entry.data, "voice_id") /\ Has(entry.options, "voice_id")
    /\ call.payload.voiceId = "v1" /\ entry.data.voice_id = "v7"
    /\ [text |-> "Found in options", key |-> "voice_id", value |-> ToString("v1")]
          \in call.log
    /\ [text |-> "Found in data", key |-> "api_key", value |-> ToString("K")] \in call.log

\* C32: a synthesis call issues at most one HTTP request: the number of its
\* requests is 0 or 1 when the call is made and stays what it is until the
\* call has returned, whatever the answer, the lines and the faults
C32_AtMostOneRequest ==
    [][/\ call'.requests \in {0, 1}
       /\ (call.pc # "idle" /\ call'.pc # "idle") => call'.requests = call.requests]_vars

\* a call has failed on an error line of a 200 answer with its one request
C32_Witness ==
    /\ call.pc = "done" /\ call.requests = 1 /\ call.status = 200
    /\ call.read >= 1 /\ call.arrived[call.read] = ErrorLine("boom")
    /\ call.outcome.kind = "error" /\ call.outcome.msg = UncategorizedMessage

C34_EmptyCatalogMeansFetchTried ==
    (FormShown /\ DOMAIN of_catalog[last.sid] = {}) => "fetch" \in last.called

\* the call asked for another language than the stored one, or the stored
\* configuration lacks api_url or api_key
RejectedEarly ==
    \/ call.language # Persisted("language", DEFAULT_LANGUAGE)
    \/ "api_url" \notin entry.options.keys \cup entry.data.keys
    \/ "api_key" \notin entry.options.keys \cup entry.data.keys

\* C35: a synthesis call for another language than the configured one, or
\* made while api_url or api_key is not configured, fails with no request
\* sent and none built
C35_EarlyRejectionSendsNothing ==
    (call.pc # "idle" /\ RejectedEarly) =>
        /\ call.pc = "done" /\ call.outcome.kind = "error"
        /\ call.outcome.msg \in {"Language not supported", "Configuration error"}
        /\ call.requests = 0 /\ call.status = 0
        /\ call.url = NoUrl /\ call.payload = NoPayload

\* a call in the configured language has failed for the missing api_key
C35_Witness ==
    /\ call.pc = "done" /\ call.requests = 0
    /\ call.language = Persisted("language", DEFAULT_LANGUAGE)
    /\ ~Has(entry.data, "api_key") /\ Has(entry.data, "api_url")
    /\ call.outcome.msg = "Configuration error" /\ call.outcome.detail = "api_key"

\* C36: when no options are stored, the defaults the options form offers
\* for model_id, audio_encoding, sample_rate_hertz and temperature are
\* values the validators of these fields accept
C36_DefaultsAreValid ==
    (FormShown /\ entry.options.keys = {}) =>
        /\ FieldAccepts("model_id", last.result.form.model_id)
        /\ FieldAccepts("audio_encoding", last.result.form.audio_encoding)
        /\ FieldAccepts("sample_rate_hertz", last.result.form.sample_rate_hertz)
        /\ FieldAccepts("temperature", last.result.form.temperature)

\* the server answered 200, closed the body, and the call has consumed all
\* its lines, none of which carries audio or an error
StreamWithoutAudio ==
    /\ call.pc = "done" /\ call.requests = 1 /\ call.status = 200 /\ call.fault = ""
    /\ call.eof /\ call.read = Len(call.arrived)
    /\ \A i \in 1..Len(call.arrived) :
          ~IsAudioLine(call.arrived[i]) /\ ~HasErrorField(call.arrived[i])

\* C37: a call whose 200 answer ends without a line that carries audio and
\* without an error line returns audio of zero bytes
C37_NoAudioIsEmptySuccess ==
    StreamWithoutAudio => (call.outcome.kind = "audio" /\ call.outcome.audio = <<>>)

\* C38: the URL of the synthesis request is the stored api_url without its
\* trailing slash, joined to the path of the endpoint, the same base as in
\* the URLs of the fetch and of the probe
C38_SynthUrlNormalised ==
    (call.requests = 1 /\ Has(entry.data, "api_url")) =>
        /\ call.url[1] = RStripSlash(entry.data.api_url)
        /\ call.url[1] = VoicesUrl(entry.data)[1]
        /\ call.url[1] = ProbeUrl(entry.data)[1]

====
